---- MODULE Spec2Model ----
(***************************************************************************)
(* create_baseline_audit.py: values are read from .nessus reports into a   *)
(* table host -> description -> value (get_values_from_nessus), an audit    *)
(* template is rewritten once per host with known_good lines inserted      *)
(* (apply_values_to_audit), and the rewritten documents are written out     *)
(* (output_audits, write_file).                                             *)
(*                                                                         *)
(* A Python str is a sequence of one-character strings.  None and the       *)
(* no_value sentinel are one-element sequences whose element is no          *)
(* character, so they differ from every str of the model.                   *)
(***************************************************************************)
EXTENDS Integers, Sequences, FiniteSets, TLC

VARIABLES
  pc,            \* position of the program
  exit_code,     \* 0 while running or after a normal end, 1 after sys.exit(1)
  error,         \* what ended the run: "none", "SystemExit", or an uncaught exception
  values,        \* ValueTable: hostname -> (description -> value)
  hostOrder,     \* insertion order of the keys of values (dict order)
  contents,      \* get_values_from_nessus: the report contents read last
  report_host,   \* get_values_from_nessus: the ReportHost element being processed
  nfiles,        \* get_values_from_nessus: report files taken so far
  nrecords,      \* get_values_from_nessus: host records taken so far
  filenames,     \* apply_values_to_audit: the template file names
  disk,          \* the file system: file name -> contents
  overwrite,     \* args.overwrite
  output_file,   \* args.filename: '' by default, the list [name] after -f name
  fidx,          \* index in filenames of the file being processed
  hidx,          \* index in hostOrder of the host being processed
  lidx,          \* number of lines of `lines` already processed
  lines,         \* contents.split('\n') of the current template
  audit_lines,   \* lines of the document being built
  in_condition,
  in_item,
  known_good,
  space,
  audits,        \* auditname -> rewritten document
  auditOrder,    \* insertion order of the keys of audits
  oidx           \* output_audits: documents handled so far

vars == <<pc, exit_code, error, values, hostOrder, contents, report_host, nfiles, nrecords,
          filenames, disk, overwrite, output_file, fidx, hidx, lidx, lines,
          audit_lines, in_condition, in_item, known_good, space, audits,
          auditOrder, oidx>>

-----------------------------------------------------------------------------
(* Characters and Python str operations *)

DQ == "\""
SQ == "'"
SP == " "
NL == "\n"
Whitespace == {" ", "\t", "\n", "\r"}

None == <<"None">>
no_value == <<"__ObNoXiOuS_StRiNg_ThAt_ShOuLd_NoT_ExIsT__">>

EmptyMap == [k \in {} |-> <<>>]

Contains(c, s) == \E i \in 1..Len(s) : s[i] = c

Drop(s, n) == SubSeq(s, n + 1, Len(s))

HasPrefix(s, p) == Len(s) >= Len(p) /\ SubSeq(s, 1, Len(p)) = p

RECURSIVE lstrip(_)
lstrip(s) == IF s # <<>> /\ Head(s) \in Whitespace THEN lstrip(Tail(s)) ELSE s

RECURSIVE rstrip(_)
rstrip(s) ==
  IF s # <<>> /\ s[Len(s)] \in Whitespace THEN rstrip(SubSeq(s, 1, Len(s) - 1)) ELSE s

strip(s) == rstrip(lstrip(s))

RECURSIVE split(_, _)
split(s, sep) ==
  IF ~Contains(sep, s) THEN <<s>>
  ELSE LET i == CHOOSE n \in 1..Len(s) : s[n] = sep /\ \A m \in 1..(n - 1) : s[m] # sep
       IN  <<SubSeq(s, 1, i - 1)>> \o split(Drop(s, i), sep)

RECURSIVE join(_, _)
join(parts, sep) ==
  IF parts = <<>> THEN <<>>
  ELSE IF Len(parts) = 1 THEN parts[1]
  ELSE parts[1] \o <<sep>> \o join(Tail(parts), sep)

-----------------------------------------------------------------------------
(* regexes: each matcher follows its pattern left to right; \s* before a    *)
(* non-blank literal needs no backtracking.                                 *)

w_condition_open == <<"<", "c", "o", "n", "d", "i", "t", "i", "o", "n">>
w_condition_close == <<"<", "/", "c", "o", "n", "d", "i", "t", "i", "o", "n">>
w_type == <<"t", "y", "p", "e">>
w_and == <<"a", "n", "d">>
w_or == <<"o", "r">>
w_item == <<"<", "i", "t", "e", "m", ">">>
w_custom_item == <<"<", "c", "u", "s", "t", "o", "m", "_", "i", "t", "e", "m", ">">>
w_item_end == <<"<", "/", "i", "t", "e", "m", ">">>
w_custom_item_end == <<"<", "/", "c", "u", "s", "t", "o", "m", "_", "i", "t", "e", "m", ">">>
w_description == <<"d", "e", "s", "c", "r", "i", "p", "t", "i", "o", "n">>
w_known_good == <<"k", "n", "o", "w", "n", "_", "g", "o", "o", "d", " ", ":", " ">>

\* '^\s*<condition\s+type\s*:\s*["\'](and|or)["\']\s*>\s*$'
re_scon(line) ==
  LET a == lstrip(line) IN
  /\ HasPrefix(a, w_condition_open)
  /\ LET b == Drop(a, Len(w_condition_open)) IN
     /\ b # <<>> /\ Head(b) \in Whitespace
     /\ LET c == lstrip(b) IN
        /\ HasPrefix(c, w_type)
        /\ LET d == lstrip(Drop(c, Len(w_type))) IN
           /\ HasPrefix(d, <<":">>)
           /\ LET e == lstrip(Tail(d)) IN
              /\ e # <<>> /\ Head(e) \in {DQ, SQ}
              /\ LET f == Tail(e)
                     g == IF HasPrefix(f, w_and) THEN Drop(f, Len(w_and))
                          ELSE Drop(f, Len(w_or))
                 IN  /\ HasPrefix(f, w_and) \/ HasPrefix(f, w_or)
                     /\ g # <<>> /\ Head(g) \in {DQ, SQ}
                     /\ LET h == lstrip(Tail(g)) IN
                        /\ HasPrefix(h, <<">">>)
                        /\ lstrip(Tail(h)) = <<>>

\* '^\s*</condition\s*>\s*$'
re_econ(line) ==
  LET a == lstrip(line) IN
  /\ HasPrefix(a, w_condition_close)
  /\ LET b == lstrip(Drop(a, Len(w_condition_close))) IN
     /\ HasPrefix(b, <<">">>)
     /\ lstrip(Tail(b)) = <<>>

\* '^\s*<(item|custom_item)>\s*$'
re_sitem(line) == strip(line) \in {w_item, w_custom_item}

\* '^\s*</(item|custom_item)>\s*$'
re_eitem(line) == strip(line) \in {w_item_end, w_custom_item_end}

\* '^(\s*)description\s*:.*$'
re_desc(line) ==
  LET a == lstrip(line) IN
  /\ HasPrefix(a, w_description)
  /\ LET b == lstrip(Drop(a, Len(w_description))) IN
     /\ HasPrefix(b, <<":">>)
     /\ ~Contains(NL, b)

\* regexes['desc'].findall(line)[0]: the text of the pattern's one group
desc_group(line) == SubSeq(line, 1, Len(line) - Len(lstrip(line)))

\* which branch of the if/elif chain of the line loop a line takes
Classify(line) ==
  IF re_econ(line) THEN "econ"
  ELSE IF re_scon(line) THEN "scon"
  ELSE IF re_sitem(line) THEN "sitem"
  ELSE IF re_eitem(line) THEN "eitem"
  ELSE IF re_desc(line) THEN "desc"
  ELSE "plain"

-----------------------------------------------------------------------------
(* Python dict: a function, with the insertion order of its keys kept aside *)

Put(d, k, v) == [x \in (DOMAIN d) \cup {k} |-> IF x = k THEN v ELSE d[x]]

PutOrder(order, d, k) == IF k \in DOMAIN d THEN order ELSE Append(order, k)

-----------------------------------------------------------------------------
(* create_filename, strip_quotes and the pieces of the line loop *)

\* mutant of create_filename: the hostname is left out of the name
create_filename_without_host(filename, hostname) == filename

\* mutant of create_filename: the name is split at its first dot
create_filename_first_dot(filename, hostname) ==
  LET parts == split(filename, ".")
  IN  parts[1] \o <<".">> \o hostname \o <<".">> \o join(Tail(parts), ".")

create_filename(filename, hostname) ==
  LET parts == split(filename, ".")
      basefile == join(SubSeq(parts, 1, Len(parts) - 1), ".")
      ext == parts[Len(parts)]
  IN  basefile \o <<".">> \o hostname \o <<".">> \o ext

\* s.strip(chars), used by the mutant below
RECURSIVE strip_chars(_, _)
strip_chars(s, chars) ==
  IF s # <<>> /\ Head(s) \in chars THEN strip_chars(Tail(s), chars)
  ELSE IF s # <<>> /\ s[Len(s)] \in chars THEN strip_chars(SubSeq(s, 1, Len(s) - 1), chars)
  ELSE s

\* mutant of strip_quotes: every quote character at either end is removed
strip_quotes_all(target) == strip_chars(strip(target), {DQ, SQ})

\* stripped[0] of an empty string raises IndexError
strip_quotes_raises(target) == strip(target) = <<>>

strip_quotes(target) ==
  LET stripped == strip(target) IN
  IF stripped[1] \in {DQ, SQ} /\ stripped[1] = stripped[Len(stripped)]
  THEN SubSeq(stripped, 2, Len(stripped) - 1)
  ELSE stripped

\* description = ':'.join(line.split(':')[1:]).strip()
desc_text(line) == strip(join(Tail(split(line, ":")), ":"))

\* '"' in known_good, "'" in known_good: both raise TypeError on None
quote_raises(kg) == kg = None

\* mutant of unquotable: the chain has no fatal branch
unquotable_never(kg) == FALSE

\* the else branch of the quoting chain: display(value, exit=1)
unquotable(kg) == Contains(DQ, kg) /\ Contains(SQ, kg)

\* mutant of quoted: always double quotes
quoted_double(kg) == <<DQ>> \o kg \o <<DQ>>

\* value after the quoting chain
quoted(kg) ==
  IF Contains(DQ, kg) /\ ~Contains(SQ, kg) THEN <<SQ>> \o kg \o <<SQ>>
  ELSE IF ~Contains(DQ, kg) /\ Contains(SQ, kg) THEN <<DQ>> \o kg \o <<DQ>>
  ELSE IF ~Contains(DQ, kg) /\ ~Contains(SQ, kg) THEN <<DQ>> \o kg \o <<DQ>>
  ELSE kg

\* new_line = '{}known_good : {}'.format(space, value)
new_line(sp, value) == sp \o w_known_good \o value

\* mutant of emit_item_end: the new line lands after the item-end line
emit_item_end_after(al, nl, line) == al \o <<line, nl>>

\* audit_lines after an item-end line with a pending value
emit_item_end(al, nl, line) == al \o <<nl, line>>

\* audit_lines.append(line), the last statement of the loop body
emit(al, line) == Append(al, line)

\* mutant of initial_known_good: the previous host's pending value is kept
leaked_known_good == known_good

\* the pending value at the start of a host's pass
initial_known_good == <<>>

\* mutant of known_good_after_eitem: the pending value survives the item end
known_good_kept == known_good

\* the eitem branch: known_good = ''
known_good_after_eitem == <<>>

\* the pending value after an item-start line: the branch sets in_item only
known_good_after_sitem == known_good

host == hostOrder[hidx]
filename == filenames[fidx]
auditname == create_filename(filename, host)
line == lines[lidx + 1]

\* mutant of in_values: descriptions inside a condition block are not looked up
in_values_outside_condition(stripped) == ~in_condition /\ stripped \in DOMAIN values[host]

\* if stripped in values[host]
in_values(stripped) == stripped \in DOMAIN values[host]

-----------------------------------------------------------------------------
(* apply_values_to_audit *)

extractLocals == <<contents, report_host, nfiles, nrecords>>
args == <<filenames, overwrite, output_file>>
table == <<values, hostOrder>>
rewriteState == <<audit_lines, in_condition, in_item, known_good, space>>
running == <<exit_code, error>>

\* for filename in filenames: contents = read_file(filename); lines = contents.split('\n')
NextFile ==
  /\ pc = "files"
  /\ fidx < Len(filenames)
  /\ fidx' = fidx + 1
  /\ lines' = split(disk[filenames[fidx + 1]], NL)
  /\ hidx' = 0
  /\ pc' = "hosts"
  /\ UNCHANGED <<running, table, extractLocals, args, disk, lidx, rewriteState,
                 audits, auditOrder, oidx>>

\* return audits
ApplyReturn ==
  /\ pc = "files"
  /\ fidx = Len(filenames)
  /\ pc' = "output"
  /\ oidx' = 0
  /\ UNCHANGED <<running, table, extractLocals, args, disk, fidx, hidx, lidx, lines,
                 rewriteState, audits, auditOrder>>

\* for host in values: the per-host state is set up
NextHost ==
  /\ pc = "hosts"
  /\ hidx < Len(hostOrder)
  /\ hidx' = hidx + 1
  /\ audit_lines' = <<>>
  /\ in_condition' = FALSE
  /\ in_item' = FALSE
  /\ known_good' = initial_known_good
  /\ space' = <<>>
  /\ lidx' = 0
  /\ pc' = "lines"
  /\ UNCHANGED <<running, table, extractLocals, args, disk, fidx, lines, audits,
                 auditOrder, oidx>>

\* the host loop is exhausted
EndHosts ==
  /\ pc = "hosts"
  /\ hidx = Len(hostOrder)
  /\ pc' = "files"
  /\ UNCHANGED <<running, table, extractLocals, args, disk, fidx, hidx, lidx, lines,
                 rewriteState, audits, auditOrder, oidx>>

AtLine(kind) == pc = "lines" /\ lidx < Len(lines) /\ Classify(line) = kind

lineFrame == <<running, table, extractLocals, args, disk, fidx, hidx, lines, audits,
               auditOrder, oidx>>

Econ ==
  /\ AtLine("econ")
  /\ in_condition' = FALSE
  /\ audit_lines' = emit(audit_lines, line)
  /\ lidx' = lidx + 1
  /\ UNCHANGED <<pc, in_item, known_good, space, lineFrame>>

Scon ==
  /\ AtLine("scon")
  /\ in_condition' = TRUE
  /\ audit_lines' = emit(audit_lines, line)
  /\ lidx' = lidx + 1
  /\ UNCHANGED <<pc, in_item, known_good, space, lineFrame>>

Sitem ==
  /\ AtLine("sitem")
  /\ in_item' = TRUE
  /\ known_good' = known_good_after_sitem
  /\ audit_lines' = emit(audit_lines, line)
  /\ lidx' = lidx + 1
  /\ UNCHANGED <<pc, in_condition, space, lineFrame>>

\* item end with no pending value
EitemPlain ==
  /\ AtLine("eitem")
  /\ known_good = <<>>
  /\ known_good' = known_good_after_eitem
  /\ in_item' = FALSE
  /\ audit_lines' = emit(audit_lines, line)
  /\ lidx' = lidx + 1
  /\ UNCHANGED <<pc, in_condition, space, lineFrame>>

\* item end with a pending value that the quoting chain accepts
EitemInsert ==
  /\ AtLine("eitem")
  /\ known_good # <<>>
  /\ ~quote_raises(known_good)
  /\ ~unquotable(known_good)
  /\ audit_lines' = emit_item_end(audit_lines, new_line(space, quoted(known_good)), line)
  /\ known_good' = known_good_after_eitem
  /\ in_item' = FALSE
  /\ lidx' = lidx + 1
  /\ UNCHANGED <<pc, in_condition, space, lineFrame>>

\* item end with a pending value holding both quote characters: display(value, exit=1)
EitemUnquotable ==
  /\ AtLine("eitem")
  /\ known_good # <<>>
  /\ ~quote_raises(known_good)
  /\ unquotable(known_good)
  /\ pc' = "exit"
  /\ exit_code' = 1
  /\ error' = "SystemExit"
  /\ UNCHANGED <<table, extractLocals, args, disk, fidx, hidx, lidx, lines,
                 rewriteState, audits, auditOrder, oidx>>

\* item end with a pending None: the membership test raises TypeError, uncaught
EitemTypeError ==
  /\ AtLine("eitem")
  /\ known_good # <<>>
  /\ quote_raises(known_good)
  /\ pc' = "exit"
  /\ exit_code' = 1
  /\ error' = "TypeError"
  /\ UNCHANGED <<table, extractLocals, args, disk, fidx, hidx, lidx, lines,
                 rewriteState, audits, auditOrder, oidx>>

\* description line with nothing after the colon: strip_quotes raises IndexError, uncaught
DescIndexError ==
  /\ AtLine("desc")
  /\ strip_quotes_raises(desc_text(line))
  /\ pc' = "exit"
  /\ exit_code' = 1
  /\ error' = "IndexError"
  /\ UNCHANGED <<table, extractLocals, args, disk, fidx, hidx, lidx, lines,
                 rewriteState, audits, auditOrder, oidx>>

\* description line whose stripped text is a key of values[host]
DescMatch ==
  /\ AtLine("desc")
  /\ ~strip_quotes_raises(desc_text(line))
  /\ in_values(strip_quotes(desc_text(line)))
  /\ known_good' = values[host][strip_quotes(desc_text(line))]
  /\ space' = desc_group(line)
  /\ audit_lines' = emit(audit_lines, line)
  /\ lidx' = lidx + 1
  /\ UNCHANGED <<pc, in_condition, in_item, lineFrame>>

DescNoMatch ==
  /\ AtLine("desc")
  /\ ~strip_quotes_raises(desc_text(line))
  /\ ~in_values(strip_quotes(desc_text(line)))
  /\ audit_lines' = emit(audit_lines, line)
  /\ lidx' = lidx + 1
  /\ UNCHANGED <<pc, in_condition, in_item, known_good, space, lineFrame>>

Plain ==
  /\ AtLine("plain")
  /\ audit_lines' = emit(audit_lines, line)
  /\ lidx' = lidx + 1
  /\ UNCHANGED <<pc, in_condition, in_item, known_good, space, lineFrame>>

\* mutant of disk_after_rewrite: the document is written as soon as it is built
disk_written_at_once(d, name, document) == Put(d, name, document)

\* the files after a host's pass: the document is kept in audits and nothing is written
disk_after_rewrite(d, name, document) == d

\* audits[auditname] = '\n'.join(audit_lines)
FinishHost ==
  /\ pc = "lines"
  /\ lidx = Len(lines)
  /\ audits' = Put(audits, auditname, join(audit_lines, NL))
  /\ auditOrder' = PutOrder(auditOrder, audits, auditname)
  /\ disk' = disk_after_rewrite(disk, auditname, join(audit_lines, NL))
  /\ pc' = "hosts"
  /\ UNCHANGED <<running, table, extractLocals, args, fidx, hidx, lidx, lines,
                 rewriteState, oidx>>

ApplyStep ==
  \/ NextFile \/ ApplyReturn \/ NextHost \/ EndHosts \/ FinishHost
  \/ Econ \/ Scon \/ Sitem \/ EitemPlain \/ EitemInsert \/ EitemUnquotable
  \/ EitemTypeError \/ DescIndexError \/ DescMatch \/ DescNoMatch \/ Plain

-----------------------------------------------------------------------------
(* get_values_from_nessus.  A ReportItem is the sequence of its children; a  *)
(* child is [name_tag, value_tag, text]: whether 'compliance-check-name' and *)
(* 'compliance-actual-value' occur in its tag, and its text (None if empty). *)
(* A ReportHost is [name, items], its name None when the attribute is absent.*)

MaxReports == 2
MaxRecords == 2

\* the loop over the children of one item, from (description, value);
\* child.text.strip() raises AttributeError on None
RECURSIVE scan_children(_, _, _)
scan_children(children, description, value) ==
  IF children = <<>> THEN [description |-> description, value |-> value, raised |-> FALSE]
  ELSE LET child == Head(children) IN
       IF child.name_tag
       THEN IF child.text = None
            THEN [description |-> description, value |-> value, raised |-> TRUE]
            ELSE scan_children(Tail(children), strip(child.text), value)
       ELSE IF child.value_tag
       THEN scan_children(Tail(children), description, child.text)
       ELSE scan_children(Tail(children), description, value)

\* mutant of item_stores: the value is not compared with the sentinel
item_stores_unchecked(description, value) == description # <<>>

\* if description and value != no_value
item_stores(description, value) == description # <<>> /\ value # no_value

\* the loop over the items of one host, from the host's mapping m
RECURSIVE fold_items(_, _)
fold_items(items, m) ==
  IF items = <<>> THEN [map |-> m, raised |-> FALSE]
  ELSE LET r == scan_children(Head(items), <<>>, no_value) IN
       IF r.raised THEN [map |-> m, raised |-> TRUE]
       ELSE IF item_stores(r.description, r.value)
       THEN fold_items(Tail(items), Put(m, r.description, r.value))
       ELSE fold_items(Tail(items), m)

\* mutant of initial_entry: an earlier mapping of the host is kept
kept_entry(vals, hostname) == IF hostname \in DOMAIN vals THEN vals[hostname] ELSE EmptyMap

\* values[hostname] = {}
initial_entry(vals, hostname) == EmptyMap

\* report_host outside the host loop: no element is bound
no_host == [name |-> None, items |-> <<>>]

applyLocals == <<fidx, hidx, lidx, lines, rewriteState, audits, auditOrder, oidx>>

MayTakeReport == nfiles < MaxReports
MayTakeRecord == nrecords < MaxRecords

\* what read_file may return for a report: XML that parses or text that does not
ReportContents == {"well-formed", "malformed"}
no_contents == "none"

\* ET.fromstring(contents) raises ParseError
parse_raises(c) == c = "malformed"

\* mutant of name_missing: the attribute is read with a default
name_missing_never(rec) == FALSE

\* host.attrib['name'] raises KeyError
name_missing(rec) == rec.name = None

\* for filename in filenames: the file is read and parses
NextReport ==
  /\ pc = "reports"
  /\ MayTakeReport
  /\ \E c \in ReportContents : ~parse_raises(c) /\ contents' = c
  /\ nfiles' = nfiles + 1
  /\ pc' = "report_hosts"
  /\ UNCHANGED <<running, table, report_host, nrecords, args, disk, applyLocals>>

\* ET.fromstring raises: display(..., exit=1)
ReportParseError ==
  /\ pc = "reports"
  /\ MayTakeReport
  /\ \E c \in ReportContents : parse_raises(c) /\ contents' = c
  /\ nfiles' = nfiles + 1
  /\ pc' = "exit"
  /\ exit_code' = 1
  /\ error' = "SystemExit"
  /\ UNCHANGED <<table, report_host, nrecords, args, disk, applyLocals>>

ExtractHostOf(rec) ==
  /\ ~name_missing(rec)
  /\ ~fold_items(rec.items, EmptyMap).raised
  /\ values' = Put(values, rec.name,
                   fold_items(rec.items, initial_entry(values, rec.name)).map)
  /\ hostOrder' = PutOrder(hostOrder, values, rec.name)
  /\ report_host' = rec
  /\ nrecords' = nrecords + 1
  /\ UNCHANGED <<pc, running, contents, nfiles, args, disk, applyLocals>>

\* host.attrib['name'] raises KeyError, caught: display(..., exit=1)
ExtractHostKeyErrorOf(rec) ==
  /\ name_missing(rec)
  /\ report_host' = rec
  /\ nrecords' = nrecords + 1
  /\ pc' = "exit"
  /\ exit_code' = 1
  /\ error' = "SystemExit"
  /\ UNCHANGED <<table, contents, nfiles, args, disk, applyLocals>>

\* a check-name child without text raises AttributeError, caught: display(..., exit=1)
ExtractHostAttributeErrorOf(rec) ==
  /\ ~name_missing(rec)
  /\ fold_items(rec.items, EmptyMap).raised
  /\ values' = Put(values, rec.name,
                   fold_items(rec.items, initial_entry(values, rec.name)).map)
  /\ hostOrder' = PutOrder(hostOrder, values, rec.name)
  /\ report_host' = rec
  /\ nrecords' = nrecords + 1
  /\ pc' = "exit"
  /\ exit_code' = 1
  /\ error' = "SystemExit"
  /\ UNCHANGED <<contents, nfiles, args, disk, applyLocals>>

\* the host records of the file are exhausted
EndReport ==
  /\ pc = "report_hosts"
  /\ pc' = "reports"
  /\ UNCHANGED <<running, table, extractLocals, args, disk, applyLocals>>

\* return values; main goes on to apply_values_to_audit(args.audit, values)
ExtractReturn ==
  /\ pc = "reports"
  /\ pc' = "files"
  /\ contents' = no_contents
  /\ report_host' = no_host
  /\ UNCHANGED <<running, table, nfiles, nrecords, args, disk, applyLocals>>

-----------------------------------------------------------------------------
(* output_audits and write_file *)

\* output_name = filename; if output_file: output_name = output_file
output_name(name) == IF output_file # <<>> THEN output_file ELSE name

\* os.path.isfile(filename) raises TypeError: the path is the list args.filename
isfile_raises(name) == output_file # <<>> /\ name = output_file

\* os.path.isfile(filename) and not overwrite
write_refused(name) == name \in DOMAIN disk /\ ~overwrite

WriteFile ==
  /\ pc = "output"
  /\ oidx < Len(auditOrder)
  /\ ~isfile_raises(output_name(auditOrder[oidx + 1]))
  /\ ~write_refused(output_name(auditOrder[oidx + 1]))
  /\ disk' = Put(disk, output_name(auditOrder[oidx + 1]), audits[auditOrder[oidx + 1]])
  /\ oidx' = oidx + 1
  /\ UNCHANGED <<pc, running, table, extractLocals, args, fidx, hidx, lidx, lines,
                 rewriteState, audits, auditOrder>>

\* display('ERROR: file exists', exit=1)
WriteFileExists ==
  /\ pc = "output"
  /\ oidx < Len(auditOrder)
  /\ ~isfile_raises(output_name(auditOrder[oidx + 1]))
  /\ write_refused(output_name(auditOrder[oidx + 1]))
  /\ pc' = "exit"
  /\ exit_code' = 1
  /\ error' = "SystemExit"
  /\ UNCHANGED <<table, extractLocals, args, disk, fidx, hidx, lidx, lines,
                 rewriteState, audits, auditOrder, oidx>>

\* write_file with a list for its path: the TypeError of os.path.isfile is not caught
WriteFileTypeError ==
  /\ pc = "output"
  /\ oidx < Len(auditOrder)
  /\ isfile_raises(output_name(auditOrder[oidx + 1]))
  /\ pc' = "exit"
  /\ exit_code' = 1
  /\ error' = "TypeError"
  /\ UNCHANGED <<table, extractLocals, args, disk, fidx, hidx, lidx, lines,
                 rewriteState, audits, auditOrder, oidx>>

\* display('Done')
OutputDone ==
  /\ pc = "output"
  /\ oidx = Len(auditOrder)
  /\ pc' = "done"
  /\ UNCHANGED <<running, table, extractLocals, args, disk, fidx, hidx, lidx, lines,
                 rewriteState, audits, auditOrder, oidx>>

OutputStep == WriteFile \/ WriteFileExists \/ OutputDone

-----------------------------------------------------------------------------
(* Inputs of the rewrite *)

MaxLines == 3
MaxHosts == 2

SeqsUpTo(S, n) == UNION {[1..m -> S] : m \in 0..n}

NonEmptySeqsUpTo(S, n) == UNION {[1..m -> S] : m \in 1..n}

key_k == <<"k">>
key_j == <<"j">>

l_item == w_item
l_item_end == w_item_end
l_custom_item == <<SP>> \o w_custom_item
l_custom_item_end == w_custom_item_end \o <<SP>>
l_desc_k == <<SP, SP>> \o w_description \o <<SP, ":", SP, DQ, "k", DQ>>
l_desc_j == w_description \o <<":", "j">>
l_desc_empty == <<SP>> \o w_description \o <<SP, ":">>
l_scon == w_condition_open \o <<SP>> \o w_type \o <<":", DQ>> \o w_and \o <<DQ, ">">>
l_econ == w_condition_close \o <<">">>
l_plain == <<"x">>

TemplateLines ==
  {l_item, l_item_end, l_desc_k, l_desc_j, l_desc_empty, l_scon, l_econ, l_plain}

\* contents of a template file: at least one line (''.split('\n') is [''])
Templates == {join(ls, NL) : ls \in NonEmptySeqsUpTo(TemplateLines, MaxLines)}

\* the templates of the runs with several hosts and files
HostTemplates ==
  {join(ls, NL) : ls \in
     {<<l_custom_item, l_desc_j, l_custom_item_end>>,
      <<l_item_end, l_desc_j>>,
      <<l_scon, l_item, l_econ>>,
      <<l_desc_empty>>,
      <<l_plain>>}}

v_plain == <<"v">>
v_other == <<"w">>
v_dq == <<DQ, ":", SP>>
v_sq == <<"v", SQ>>
v_both == <<SQ, DQ>>

\* what get_values_from_nessus stores: child.text of an actual-value field, which is
\* None for an empty element and a non-empty str otherwise
RewriteValues == {v_plain, v_dq, v_sq, v_both, None}

Maps(K, V) == UNION {[D -> V] : D \in SUBSET K}

h1 == <<"h", "1">>
h2 == <<"h", "2">>
h3 == <<"h", "3">>
HostNames == {h1, h2, h3}

f_a == <<"a", ".", "x">>
f_b == <<"b", ".", "y", ".", "x">>

\* the tables of the single-host rewrite: key k with any value, key j with one
RewriteTables ==
  {[order |-> <<h1>>, map |-> (h1 :> (mk @@ mj))] :
     mk \in Maps({key_k}, RewriteValues), mj \in Maps({key_j}, {v_other})}

Injective(q) == \A i, j \in 1..Len(q) : q[i] = q[j] => i = j

HostValues == {v_plain, v_both, None}

\* the tables of up to MaxHosts hosts, each with key j or without
HostTables ==
  {[order |-> o, map |-> m] :
     o \in {q \in SeqsUpTo(HostNames, MaxHosts) : Injective(q)},
     m \in UNION {[D -> Maps({key_j}, HostValues)] : D \in SUBSET HostNames}}

InitApply(F, D, T, O, N) ==
  /\ pc = "files"
  /\ exit_code = 0
  /\ error = "none"
  /\ \E t \in T :
       /\ DOMAIN t.map = {t.order[i] : i \in 1..Len(t.order)}
       /\ values = t.map
       /\ hostOrder = t.order
  /\ contents = no_contents
  /\ report_host = no_host
  /\ nfiles = 0
  /\ nrecords = 0
  /\ filenames \in F
  /\ disk \in D
  /\ overwrite \in O
  /\ output_file \in N
  /\ fidx = 0
  /\ hidx = 0
  /\ lidx = 0
  /\ lines = <<>>
  /\ audit_lines = <<>>
  /\ in_condition = FALSE
  /\ in_item = FALSE
  /\ known_good = <<>>
  /\ space = <<>>
  /\ audits = EmptyMap
  /\ auditOrder = <<>>
  /\ oidx = 0

\* one template, one host: the state after get_values_from_nessus returned
InitRewrite ==
  InitApply({<<f_a>>}, {(f_a :> t) : t \in Templates}, RewriteTables, {FALSE}, {<<>>})

SpecRewrite == InitRewrite /\ [][ApplyStep]_vars

-----------------------------------------------------------------------------
(* Several hosts and template files, through to the written files *)

FileLists == {<<>>, <<f_a>>, <<f_a, f_b>>}

stale == <<"o">>

\* both templates hold the same text; a.h1.x is on disk before the run
HostDisks ==
  {(f_a :> t) @@ (f_b :> t) @@ (create_filename(f_a, h1) :> stale) : t \in HostTemplates}

InitHosts == InitApply(FileLists, HostDisks, HostTables, BOOLEAN, {<<>>})

HostsStep == ApplyStep \/ OutputStep

SpecHosts == InitHosts /\ [][HostsStep]_vars

-----------------------------------------------------------------------------
(* Output names: template names with a dot and hostnames, dots included *)

MaxFileLen == 3
MaxHostLen == 2

DottedNames == {f \in NonEmptySeqsUpTo({"a", "."}, MaxFileLen) : Contains(".", f)}

DottedHosts == NonEmptySeqsUpTo({"h", "."}, MaxHostLen)

\* one or two hosts without values
NameTables ==
  {[order |-> o, map |-> [h \in {o[i] : i \in 1..Len(o)} |-> EmptyMap]] :
     o \in {q \in NonEmptySeqsUpTo(DottedHosts, 2) : Injective(q)}}

\* one template file of one plain line
InitNames ==
  \E f \in DottedNames :
    InitApply({<<f>>}, {(f :> l_plain)}, NameTables, {FALSE}, {<<>>})

NamesStep == NextFile \/ ApplyReturn \/ NextHost \/ EndHosts \/ Plain \/ FinishHost

SpecNames == InitNames /\ [][NamesStep]_vars

-----------------------------------------------------------------------------
(* Inputs of the extraction *)

Child(n, v, t) == [name_tag |-> n, value_tag |-> v, text |-> t]

c_name(t) == Child(TRUE, FALSE, t)
c_value(t) == Child(FALSE, TRUE, t)

i_kv == <<c_name(<<SP, "k", SP>>), c_value(v_plain)>>
i_vk == <<c_value(v_other), Child(FALSE, FALSE, v_plain), c_name(key_k)>>
i_k_only == <<c_name(key_k)>>
i_v_only == <<c_value(v_plain)>>
i_sentinel == <<c_name(key_j), c_value(no_value)>>
i_none_value == <<c_name(key_j), c_value(None)>>
i_none_name == <<c_value(v_plain), c_name(None)>>
i_blank_name == <<c_name(<<SP, SP>>), c_value(v_plain)>>
i_both_tags == <<Child(TRUE, TRUE, key_j), c_value(v_both)>>
i_quoted_name == <<c_name(<<DQ, "k", DQ>>), c_value(v_dq)>>

ItemLists ==
  {<<>>, <<i_kv>>, <<i_kv, i_vk>>, <<i_k_only>>, <<i_v_only>>, <<i_sentinel>>,
   <<i_none_value>>, <<i_none_name>>, <<i_kv, i_none_name>>, <<i_blank_name>>,
   <<i_both_tags, i_kv>>, <<i_quoted_name>>}

HostRecords == [name : {h1, h2, None}, items : ItemLists]

ExtractHost == pc = "report_hosts" /\ MayTakeRecord /\ \E rec \in HostRecords : ExtractHostOf(rec)

ExtractHostKeyError ==
  pc = "report_hosts" /\ MayTakeRecord /\ \E rec \in HostRecords : ExtractHostKeyErrorOf(rec)

ExtractHostAttributeError ==
  pc = "report_hosts" /\ MayTakeRecord /\ \E rec \in HostRecords : ExtractHostAttributeErrorOf(rec)

ExtractStep ==
  \/ NextReport \/ ReportParseError \/ ExtractHost \/ ExtractHostKeyError
  \/ ExtractHostAttributeError \/ EndReport \/ ExtractReturn

InitExtract ==
  /\ pc = "reports"
  /\ exit_code = 0
  /\ error = "none"
  /\ values = EmptyMap
  /\ hostOrder = <<>>
  /\ contents = no_contents
  /\ report_host = no_host
  /\ nfiles = 0
  /\ nrecords = 0
  /\ filenames = <<f_a>>
  /\ disk = (f_a :> l_plain)
  /\ overwrite = FALSE
  /\ output_file = <<>>
  /\ fidx = 0
  /\ hidx = 0
  /\ lidx = 0
  /\ lines = <<>>
  /\ audit_lines = <<>>
  /\ in_condition = FALSE
  /\ in_item = FALSE
  /\ known_good = <<>>
  /\ space = <<>>
  /\ audits = EmptyMap
  /\ auditOrder = <<>>
  /\ oidx = 0

SpecExtract == InitExtract /\ [][ExtractStep]_vars

-----------------------------------------------------------------------------
(* The whole program: main with the arguments of parse_args, one template    *)
(* file (audit has nargs=1), reports drawn record by record.                 *)

f_o == <<"o", ".", "x">>

\* args.filename: '' without -f, the one-element list of nargs=1 with it
OutputArgs == {<<>>, <<f_o>>}

ProgramItems == {<<i_kv>>, <<i_none_value>>, <<i_both_tags, i_kv>>, <<i_none_name>>}

ProgramRecords == [name : {h1, h2, None}, items : ProgramItems]

ProgramTemplates ==
  {join(ls, NL) : ls \in
     {<<l_scon, l_item, l_desc_k, l_item_end, l_econ>>,
      <<l_desc_j, l_item_end, l_plain>>,
      <<l_desc_empty>>}}

\* the template, and a.h1.x on disk before the run
ProgramDisks == {(f_a :> t) @@ (create_filename(f_a, h1) :> stale) : t \in ProgramTemplates}

TakeHost ==
  pc = "report_hosts" /\ MayTakeRecord /\ \E rec \in ProgramRecords : ExtractHostOf(rec)

TakeHostKeyError ==
  pc = "report_hosts" /\ MayTakeRecord /\ \E rec \in ProgramRecords : ExtractHostKeyErrorOf(rec)

TakeHostAttributeError ==
  pc = "report_hosts" /\ MayTakeRecord
    /\ \E rec \in ProgramRecords : ExtractHostAttributeErrorOf(rec)

Init ==
  /\ pc = "reports"
  /\ exit_code = 0
  /\ error = "none"
  /\ values = EmptyMap
  /\ hostOrder = <<>>
  /\ contents = no_contents
  /\ report_host = no_host
  /\ nfiles = 0
  /\ nrecords = 0
  /\ filenames = <<f_a>>
  /\ disk \in ProgramDisks
  /\ overwrite \in BOOLEAN
  /\ output_file \in OutputArgs
  /\ fidx = 0
  /\ hidx = 0
  /\ lidx = 0
  /\ lines = <<>>
  /\ audit_lines = <<>>
  /\ in_condition = FALSE
  /\ in_item = FALSE
  /\ known_good = <<>>
  /\ space = <<>>
  /\ audits = EmptyMap
  /\ auditOrder = <<>>
  /\ oidx = 0

Next ==
  \/ NextReport \/ ReportParseError \/ TakeHost \/ TakeHostKeyError
  \/ TakeHostAttributeError \/ EndReport \/ ExtractReturn
  \/ ApplyStep
  \/ OutputStep \/ WriteFileTypeError

Spec == Init /\ [][Next]_vars

-----------------------------------------------------------------------------
(* Claims about apply_values_to_audit *)

HasBothQuotes(v) == Contains(DQ, v) /\ Contains(SQ, v)

\* a step of the line loop that put an extra line in front of the processed line
Inserts == pc = "lines" /\ pc' = "lines" /\ Len(audit_lines') = Len(audit_lines) + 2

Inserted == audit_lines'[Len(audit_lines') - 1]

\* the description line d of ls names a key of mapping m
MatchesKey(ls, d, m) ==
  /\ Classify(ls[d]) = "desc"
  /\ desc_text(ls[d]) # <<>>
  /\ strip_quotes(desc_text(ls[d])) \in DOMAIN m

\* line s is the item-start line that opened the item closed by line e
Opens(ls, s, e) ==
  /\ s < e
  /\ Classify(ls[s]) = "sitem"
  /\ \A i \in (s + 1)..(e - 1) : Classify(ls[i]) \notin {"sitem", "eitem"}

\* C1: a known_good line is inserted before an item-end line only if a description
\* line matching a key of the host was seen after the item-start line that opened
\* this item.
C1_InsertOnlyAfterMatchInItem ==
  [][Inserts =>
       \E s \in 1..lidx : /\ Opens(lines, s, lidx + 1)
                          /\ \E d \in (s + 1)..lidx : MatchesKey(lines, d, values[host])]_vars

\* the description lines of the item opened by line s and closed by line e
DescLines(ls, s, e) == {d \in (s + 1)..(e - 1) : Classify(ls[d]) = "desc"}

\* C2: an item with exactly one description line, which names a key whose value
\* holds at most one kind of quote, gets exactly one inserted line, directly before
\* its item-end line, indented like the description line.
C2_OneInsertionPerQualifyingItem ==
  [][\A s \in 1..lidx :
       (/\ AtLine("eitem")
        /\ Opens(lines, s, lidx + 1)
        /\ Cardinality(DescLines(lines, s, lidx + 1)) = 1
        /\ \A d \in DescLines(lines, s, lidx + 1) :
             /\ MatchesKey(lines, d, values[host])
             /\ ~HasBothQuotes(values[host][strip_quotes(desc_text(lines[d]))]))
       => /\ Inserts
          /\ audit_lines'[Len(audit_lines')] = line
          /\ \A d \in DescLines(lines, s, lidx + 1) :
               HasPrefix(Inserted, desc_group(lines[d]) \o w_known_good)]_vars

\* out is tmpl with added lines, each directly followed by an item-end line of tmpl
RECURSIVE Frame(_, _)
Frame(out, tmpl) ==
  IF out = <<>> THEN tmpl = <<>>
  ELSE /\ tmpl # <<>>
       /\ \/ Head(out) = Head(tmpl) /\ Frame(Tail(out), Tail(tmpl))
          \/ /\ Len(out) >= 2
             /\ out[2] = Head(tmpl)
             /\ re_eitem(out[2])
             /\ Frame(Tail(Tail(out)), Tail(tmpl))

\* C3: the output is the template with added lines and nothing else changed; every
\* added line is directly followed by an item-end line.
C3_TemplatePreserved ==
  /\ pc = "lines" => Frame(audit_lines, SubSeq(lines, 1, lidx))
  /\ (pc = "hosts" /\ hidx > 0) => Frame(split(audits[auditname], NL), lines)

C3_Witness ==
  /\ pc = "hosts"
  /\ hidx > 0
  /\ Len(split(audits[auditname], NL)) = Len(lines) + 1
  /\ Len(lines) = MaxLines

\* C4: a pending value with both quote characters at an item-end line ends the run:
\* no line is emitted, no document is returned, no file is written.
C4_UnquotableIsFatal ==
  [][/\ (AtLine("eitem") /\ known_good # None /\ HasBothQuotes(known_good))
          => /\ pc' = "exit"
             /\ exit_code' = 1
             /\ audit_lines' = audit_lines
             /\ audits' = audits
     /\ pc = "exit" => UNCHANGED vars
     /\ pc \in {"files", "hosts", "lines"} => disk' = disk]_vars

C4_Witness ==
  /\ pc = "exit"
  /\ exit_code = 1
  /\ HasBothQuotes(known_good)
  /\ Cardinality(DOMAIN audits) = 1
  /\ \A n \in DOMAIN audits : n \in DOMAIN disk => disk[n] # audits[n]

\* the literal the quoting rule gives for a value without both quote characters
ExpectedLiteral(v) ==
  IF Contains(DQ, v) /\ ~Contains(SQ, v) THEN <<SQ>> \o v \o <<SQ>>
  ELSE IF Contains(SQ, v) /\ ~Contains(DQ, v) THEN <<DQ>> \o v \o <<DQ>>
  ELSE <<DQ>> \o v \o <<DQ>>

\* C5: the literal after 'known_good : ' is the pending value wrapped once, in single
\* quotes if it holds a double quote, in double quotes otherwise.
C5_LiteralByQuotingRule ==
  [][Inserts => Inserted = space \o w_known_good \o ExpectedLiteral(known_good)]_vars

C5_Witness ==
  /\ pc = "lines"
  /\ Len(audit_lines) >= 2
  /\ audit_lines[Len(audit_lines) - 1] = <<SP, SP>> \o w_known_good \o <<DQ>> \o v_sq \o <<DQ>>

\* C6: a value with a double quote and no single quote is emitted in single quotes,
\* and parsing the emitted line back (text after the first colon, trimmed, quotes
\* stripped) gives the value.
C6_QuotingRoundTrip ==
  [][(Inserts /\ Contains(DQ, known_good) /\ ~Contains(SQ, known_good))
       => /\ Inserted = space \o w_known_good \o <<SQ>> \o known_good \o <<SQ>>
          /\ strip_quotes(desc_text(Inserted)) = known_good]_vars

C6_Witness ==
  /\ pc = "lines"
  /\ Len(audit_lines) >= 2
  /\ re_eitem(audit_lines[Len(audit_lines)])
  /\ HasPrefix(audit_lines[Len(audit_lines) - 1], <<SP, SP>> \o w_known_good \o <<SQ, DQ>>)
  /\ strip_quotes(desc_text(audit_lines[Len(audit_lines) - 1])) = v_dq

\* the document of template lines ls for mapping m: a function of ls and m alone
RECURSIVE RewriteOf(_, _, _, _, _)
RewriteOf(ls, m, kg, sp, out) ==
  IF ls = <<>> THEN out
  ELSE LET l == Head(ls)
           kind == Classify(l)
       IN  IF kind = "eitem"
           THEN RewriteOf(Tail(ls), m, <<>>, sp,
                          IF kg = <<>> THEN out \o <<l>>
                          ELSE out \o <<sp \o w_known_good \o ExpectedLiteral(kg), l>>)
           ELSE IF kind = "desc" /\ MatchesKey(ls, 1, m)
           THEN RewriteOf(Tail(ls), m, m[strip_quotes(desc_text(l))], desc_group(l),
                          out \o <<l>>)
           ELSE RewriteOf(Tail(ls), m, kg, sp, out \o <<l>>)

\* C7: the document of a host is a function of the template and that host's mapping
\* only, whatever the other hosts and their order; every host's pass reads the
\* template's own lines.
C7_PerHostIndependence ==
  /\ \A i \in 1..Len(filenames) : \A h \in DOMAIN values :
       create_filename(filenames[i], h) \in DOMAIN audits
         => audits[create_filename(filenames[i], h)]
              = join(RewriteOf(split(disk[filenames[i]], NL), values[h], <<>>, <<>>, <<>>), NL)
  /\ pc \in {"hosts", "lines"} => lines = split(disk[filename], NL)

C7_Witness ==
  /\ pc = "output"
  /\ Len(hostOrder) = MaxHosts
  /\ \E i \in 1..Len(filenames) : \E g, h \in DOMAIN values :
       /\ create_filename(filenames[i], g) \in DOMAIN audits
       /\ create_filename(filenames[i], h) \in DOMAIN audits
       /\ audits[create_filename(filenames[i], g)] # audits[create_filename(filenames[i], h)]

DerivedNames ==
  {create_filename(filenames[i], hostOrder[j]) : i \in 1..Len(filenames), j \in 1..Len(hostOrder)}

Returned == pc = "output" /\ oidx = 0

\* C8 as claimed: the number of returned documents is the number of hosts, however
\* many template files are supplied.
C8_DocumentsEqualHosts ==
  Returned => Cardinality(DOMAIN audits) = Cardinality(DOMAIN values)

\* C8 as amended: one document per distinct derived name over templates and hosts,
\* which is one per host when exactly one template file is supplied.
C8_DocumentsPerTemplateAndHost ==
  Returned =>
    /\ Cardinality(DOMAIN audits) = Cardinality(DerivedNames)
    /\ Len(filenames) = 1 => Cardinality(DOMAIN audits) = Cardinality(DOMAIN values)

C8_Witness ==
  /\ Returned
  /\ Len(filenames) = 1
  /\ Cardinality(DOMAIN audits) = MaxHosts

\* C15: immediately after any item-start line the in-item flag is set and the
\* pending known-good value and the captured indentation are empty, whatever
\* lines preceded it.
C15_ItemStartClearsState ==
  [][AtLine("sitem") => in_item' /\ known_good' = <<>> /\ space' = <<>>]_vars

\* C16: for every description line, in any state and whatever text follows the
\* colon, nothing or whitespace included, the rewriter emits the line unchanged
\* and goes on to the remaining lines.
C16_DescriptionLineEmitted ==
  [][AtLine("desc") =>
       /\ audit_lines' = Append(audit_lines, line)
       /\ lidx' = lidx + 1
       /\ pc' = "lines"
       /\ error' = "none"]_vars

\* the number of lines processed up to the last item-end line, 0 if there is none
LastClear ==
  IF \E i \in 1..lidx : Classify(lines[i]) = "eitem"
  THEN CHOOSE i \in 1..lidx :
         Classify(lines[i]) = "eitem" /\ \A j \in (i + 1)..lidx : Classify(lines[j]) # "eitem"
  ELSE 0

\* d is the last description line matching a key of the host since the pending
\* value was last cleared
LastMatch(d) ==
  /\ d \in (LastClear + 1)..lidx
  /\ MatchesKey(lines, d, values[host])
  /\ \A e \in (d + 1)..lidx : ~MatchesKey(lines, e, values[host])

\* C17: an item-end line gets at most one inserted line, which carries the value
\* and the indentation of the last matching description line seen since the
\* pending value was last cleared; the item-end line clears the pending value and
\* the in-item flag, so a captured value is not emitted again at a later item end.
C17_AtMostOneInsertionPerItemEnd ==
  [][(AtLine("eitem") /\ pc' = "lines") =>
       /\ Len(audit_lines') \in {Len(audit_lines) + 1, Len(audit_lines) + 2}
       /\ SubSeq(audit_lines', 1, Len(audit_lines)) = audit_lines
       /\ audit_lines'[Len(audit_lines')] = line
       /\ known_good' = <<>>
       /\ ~in_item'
       /\ Inserts =>
            \E d \in 1..lidx :
              /\ LastMatch(d)
              /\ Inserted = desc_group(lines[d]) \o w_known_good
                   \o ExpectedLiteral(values[host][strip_quotes(desc_text(lines[d]))])]_vars

C17_Witness ==
  /\ pc = "lines"
  /\ lines = <<l_desc_k, l_item_end, l_item_end>>
  /\ lidx = 3
  /\ audit_lines = <<l_desc_k, <<SP, SP>> \o w_known_good \o <<DQ>> \o v_plain \o <<DQ>>,
                     l_item_end, l_item_end>>
  /\ known_good = <<>>

\* C18: the inside-condition flag never influences the output: a condition-start
\* or condition-end line is emitted unchanged and changes only that flag, and the
\* lines emitted so far are those of a rewrite that keeps no such flag, so that a
\* description line is matched and its item gets its known_good line alike inside
\* and outside a condition block.
C18_ConditionFlagInert ==
  /\ [][(AtLine("scon") \/ AtLine("econ")) =>
          /\ audit_lines' = Append(audit_lines, line)
          /\ lidx' = lidx + 1
          /\ in_condition' = AtLine("scon")
          /\ UNCHANGED <<pc, in_item, known_good, space>>]_vars
  /\ [](pc = "lines" =>
          audit_lines = RewriteOf(SubSeq(lines, 1, lidx), values[host], <<>>, <<>>, <<>>))

C18_Witness ==
  /\ pc = "lines"
  /\ in_condition
  /\ lines = <<l_scon, l_desc_k, l_item_end>>
  /\ lidx = 3
  /\ audit_lines = <<l_scon, l_desc_k, <<SP, SP>> \o w_known_good \o <<SQ>> \o v_dq \o <<SQ>>,
                     l_item_end>>

-----------------------------------------------------------------------------
(* Claims about get_values_from_nessus *)

\* a step that processed one host record to its end
RecordDone == pc = "report_hosts" /\ pc' = "report_hosts" /\ nrecords' = nrecords + 1

\* C9: after a host record named h, the entry of h is the mapping built from that
\* record alone, and the other entries are as before.
C9_LastRecordWins ==
  [][RecordDone =>
       /\ DOMAIN values' = DOMAIN values \cup {report_host'.name}
       /\ values'[report_host'.name] = fold_items(report_host'.items, EmptyMap).map
       /\ \A h \in DOMAIN values \ {report_host'.name} : values'[h] = values[h]]_vars

C9_Witness ==
  /\ pc = "report_hosts"
  /\ nfiles = 2
  /\ nrecords = 2
  /\ hostOrder = <<h1>>
  /\ nrecords > 0
  /\ report_host.items = <<i_none_value>>
  /\ values[h1] = (key_j :> None)

\* the item has a check-name field giving key k and an actual-value field giving v
HasBothFields(item, k, v) ==
  \E a, b \in 1..Len(item) :
    /\ item[a].name_tag /\ item[a].text # None /\ strip(item[a].text) = k
    /\ ~item[b].name_tag /\ item[b].value_tag /\ item[b].text = v

\* C10: an entry comes from a finding with both fields; no stored value is the
\* sentinel and no key is empty.
C10_EntriesNeedBothFields ==
  [][/\ \A h \in DOMAIN values' : \A k \in DOMAIN values'[h] :
          k # <<>> /\ values'[h][k] # no_value
     /\ RecordDone =>
          \A k \in DOMAIN values'[report_host'.name] :
            \E i \in 1..Len(report_host'.items) :
              HasBothFields(report_host'.items[i], k, values'[report_host'.name][k])]_vars

C10_Witness ==
  /\ pc = "report_hosts"
  /\ nrecords > 0
  /\ report_host.items = <<i_sentinel>>
  /\ report_host.name = h2
  /\ values[h2] = EmptyMap

\* the text carries no surrounding whitespace and no layer of matching
\* surrounding quote characters
Normalized(k) ==
  /\ strip(k) = k
  /\ ~(Len(k) >= 2 /\ k[1] \in {DQ, SQ} /\ k[Len(k)] = k[1])

\* C11: every key of every host mapping is a normalized description, so a check
\* name written with surrounding quotes is stored under the key a template
\* description line with the same quoted text is looked up by.
C11_KeysNormalized ==
  \A h \in DOMAIN values : \A k \in DOMAIN values[h] :
    /\ Normalized(k)
    /\ strip_quotes(k) = k

\* a step of the extraction that takes a report that does not parse, or a host
\* record without its name attribute
ExtractionFails ==
  /\ pc \in {"reports", "report_hosts"}
  /\ \/ nfiles' = nfiles + 1 /\ contents' = "malformed"
     \/ nrecords' = nrecords + 1 /\ report_host'.name = None

\* C12: extraction is all-or-nothing: a report that fails to parse, or a host
\* record without its name attribute, ends the run with exit status 1, and a run
\* that has ended never returns a table, whatever was extracted before.
C12_ExtractionAllOrNothing ==
  [][/\ ExtractionFails => pc' = "exit" /\ exit_code' = 1
     /\ pc = "exit" => pc' = "exit"
     /\ pc' = "files" => exit_code = 0 /\ exit_code' = 0]_vars

C12_Witness ==
  /\ pc = "exit"
  /\ exit_code = 1
  /\ nfiles = 2
  /\ nrecords = 2
  /\ report_host.name = None
  /\ h1 \in DOMAIN values
  /\ key_k \in DOMAIN values[h1]

-----------------------------------------------------------------------------
(* Claims about create_filename and output_audits *)

\* the position of the last '.' of a name that has one
LastDot(f) == CHOOSE i \in 1..Len(f) : f[i] = "." /\ \A j \in (i + 1)..Len(f) : f[j] # "."

\* C13: for a template name with a dot the derived name is the text before the
\* last dot, a dot, the hostname, a dot and the text after the last dot; for a
\* fixed template name distinct hostnames give distinct names.
C13_DerivedName ==
  /\ pc = "lines" =>
       /\ auditname = SubSeq(filename, 1, LastDot(filename) - 1) \o <<".">> \o host
                        \o <<".">> \o SubSeq(filename, LastDot(filename) + 1, Len(filename))
       /\ \A g \in DOMAIN values : g # host => create_filename(filename, g) # auditname
  /\ Returned => Cardinality(DOMAIN audits) = Len(hostOrder)

C13_Witness ==
  /\ Returned
  /\ filenames = <<<<".", "a", ".">>>>
  /\ hostOrder = <<<<"h", ".">>, <<".", "h">>>>
  /\ DOMAIN audits = {<<".", "a", ".", "h", ".", ".">>, <<".", "a", ".", ".", "h", ".">>}

\* C14: with an output-file override every host's document is written to that one
\* path: each write in the output phase succeeds and leaves the document just
\* handled there, so after the run the path holds the last host's document.
C14_OverrideHoldsLastDocument ==
  [][(pc = "output" /\ output_file # <<>> /\ oidx < Len(auditOrder)) =>
       /\ oidx' = oidx + 1
       /\ output_file[1] \in DOMAIN disk'
       /\ disk'[output_file[1]] = audits[auditOrder[oidx']]]_vars

\* the files on disk before the run: the template and a.h1.x
InitialDisk == (f_a :> disk[f_a]) @@ (create_filename(f_a, h1) :> stale)

\* the disk after the first k documents were written under their derived names
RECURSIVE WrittenDisk(_)
WrittenDisk(k) ==
  IF k = 0 THEN InitialDisk
  ELSE Put(WrittenDisk(k - 1), auditOrder[k], audits[auditOrder[k]])

EarlyPhases == {"reports", "report_hosts", "files", "hosts", "lines"}

\* C19: no output file is written before the extraction of every report and the
\* rewrite of every host are complete: a run ended by a fatal error in those phases
\* leaves the disk as it was, and a run ended by a fatal write error at the k-th
\* document leaves the k-1 documents written before it in place.
C19_PhaseOrdering ==
  /\ [](/\ disk = WrittenDisk(oidx)
        /\ disk[f_a] \in ProgramTemplates
        /\ pc \in EarlyPhases => oidx = 0 /\ disk = InitialDisk)
  /\ [][/\ disk' # disk => pc = "output" /\ pc' = "output" /\ oidx' = oidx + 1
        /\ (pc \in EarlyPhases /\ pc' = "exit") => oidx' = 0 /\ disk' = disk
        /\ (pc = "output" /\ pc' = "exit") => oidx' = oidx /\ disk' = disk]_vars

C19_Witness ==
  /\ pc = "exit"
  /\ error = "SystemExit"
  /\ hostOrder = <<h2, h1>>
  /\ oidx = 1
  /\ disk[create_filename(f_a, h2)] = audits[create_filename(f_a, h2)]
  /\ disk[create_filename(f_a, h1)] = stale

====
